---- MODULE Spec2Model ----
(***************************************************************************)
(* Model of the healthcheck engine: the statistical aggregation of the     *)
(* usage checks, the result renderers, the ApiFetcher cache, the check     *)
(* runner and the remote executor's batch operations.                      *)
(*                                                                         *)
(* Each component has its own specification (SpecStats, SpecRender, ...).  *)
(* All variables are declared once; a specification keeps the variables of *)
(* the other components at their idle values.                              *)
(***************************************************************************)
EXTENDS Integers, Sequences, FiniteSets, TLC

VARIABLES
    ints,       \* stats: the 'intervals' list of one stats resource
    aggOut,     \* stats: locals of the aggregation after it ran, or the error raised
    aggPc,      \* stats: "idle" before the aggregation ran, else the check that ran it
    rResult,    \* render: the outcome tuple handed to render_result
    rDoc,       \* render: __doc__ of the check function handed to render_result
    rOut,       \* render: what render_result printed, or the error it raised
    rPc,        \* render: "idle" before render_result ran, else the renderer that ran
    addr,       \* api: ApiFetcher.addr, the configured host string split at ':'
    cache,      \* api: ApiFetcher.cache, topic -> decoded response
    uids,       \* api: ApiFetcher.uids, internal address -> uid
    connected,  \* api: ApiFetcher.connected: "None", "True" or "False"
    httpLog,    \* api: the http_get calls made so far: url, topic and whether it returned
    uidBuilds,  \* api: how often get_uid assigned a built index to ApiFetcher.uids
    apiRet,     \* api: the last call: its name, argument, and what it returned or raised
    registry,   \* run: the registered checks, in registration order (their __doc__)
    renderer,   \* run: the active renderer, "json" or "basic"
    runPos,     \* run: the position of the next registry entry to run
    runStats,   \* run: the five counters of the stats collector
    runOut,     \* run: everything the renderer printed so far
    runLog,     \* run: per check run: whether it raised, its records, the counters around it
    runPc,      \* run: "running", "done" once the final counters are rendered
    handles,    \* rex: the handles of the batch, in the order the call returned them
    doneOrder,  \* rex: the positions of the handles whose command ended, in that order
    cmdFailed,  \* rex: the positions of the handles whose command failed on its target
    resolved,   \* rex: how many handles the caller has resolved, in list order
    batch,      \* rex: the call that made the batch: "none", "broad" or "multi"
    rexPc,      \* rex: the caller: "idle", "dispatched" (inside the call), "resolving",
                \*      "raised", "finished", "next" (the next check has started)
    chkIn,      \* checks: what the check reads: API responses or command outputs
    chkOut,     \* checks: the outcome tuple the check returned, or the error it raised
    chkPc       \* checks: "idle" before the check ran, else the check that ran

statsVars == <<ints, aggOut, aggPc>>

renderVars == <<rResult, rDoc, rOut, rPc>>

apiVars == <<addr, cache, uids, connected, httpLog, uidBuilds, apiRet>>

runVars == <<registry, renderer, runPos, runStats, runOut, runLog, runPc>>

rexVars == <<handles, doneOrder, cmdFailed, resolved, batch, rexPc>>

checkVars == <<chkIn, chkOut, chkPc>>

vars == <<statsVars, renderVars, apiVars, runVars, rexVars, checkVars>>

\* What the actions of one component leave alone: the other components
notStats == <<renderVars, apiVars, runVars, rexVars, checkVars>>

notRender == <<statsVars, apiVars, runVars, rexVars, checkVars>>

notApi == <<statsVars, renderVars, runVars, rexVars, checkVars>>

notRun == <<statsVars, renderVars, apiVars, rexVars, checkVars>>

notRex == <<statsVars, renderVars, apiVars, runVars, checkVars>>

notChecks == <<statsVars, renderVars, apiVars, runVars, rexVars>>

(***************************************************************************)
(* Bounds of the model.                                                    *)
(***************************************************************************)
MaxInts == 3

MaxDocLines == 2

MaxHttpCalls == 3

MaxUidBuilds == 2

MaxChecks == 3

NumTargets == 3

MaxPairs == 2

MaxBdbs == 2

(***************************************************************************)
(* Python arithmetic.                                                      *)
(***************************************************************************)
RECURSIVE GCD(_, _)
GCD(a, b) == IF b = 0 THEN a ELSE GCD(b, a % b)

Abs(x) == IF x < 0 THEN -x ELSE x

\* The quotient a / b of Python's true division, kept exact as a reduced fraction.
TrueDiv(a, b) ==
    LET g == GCD(Abs(a), Abs(b))
    IN  IF a = 0 THEN [num |-> 0, den |-> 1]
        ELSE [num |-> a \div g, den |-> b \div g]

RatAdd(x, y) == TrueDiv(x.num * y.den + y.num * x.den, x.den * y.den)

RatSub(x, y) == TrueDiv(x.num * y.den - y.num * x.den, x.den * y.den)

\* pow(x, 2)
RatSquare(x) == TrueDiv(x.num * x.num, x.den * x.den)

RatOfInt(k) == [num |-> k, den |-> 1]

\* x / k for a fraction x and an integer k > 0
RatDivInt(x, k) == TrueDiv(x.num, x.den * k)

(***************************************************************************)
(* Interval records: a dict that carries a subset of the telemetry fields. *)
(***************************************************************************)
Fields == {"total_req", "free_memory"}

TotalReqValues == {0, 10, 20, 30}

FreeMemoryValues == {0, 20}

FieldValues(f) == IF f = "total_req" THEN TotalReqValues ELSE FreeMemoryValues

Intervals ==
    UNION { { i \in [D -> TotalReqValues \cup FreeMemoryValues] :
                \A f \in D : i[f] \in FieldValues(f) } : D \in SUBSET Fields }

RECURSIVE SeqsUpTo(_, _)
SeqsUpTo(S, n) ==
    IF n = 0 THEN { <<>> }
    ELSE LET shorter == SeqsUpTo(S, n - 1)
         IN  shorter \cup { Append(s, x) : s \in { t \in shorter : Len(t) = n - 1 }, x \in S }

\* bool(i.get(field)): i.get gives None for a missing key, and None and 0 are falsy
GetIsTruthy(i, field) == IF field \in DOMAIN i THEN i[field] # 0 ELSE FALSE

\* filter(lambda i: i.get(field), ints)
FilterByGet(_ints, field) == SelectSeq(_ints, LAMBDA i : GetIsTruthy(i, field))

\* [i[field] for i in records]
FieldOf(records, field) == [k \in 1..Len(records) |-> records[k][field]]

RECURSIVE PyMinFrom(_, _, _)
PyMinFrom(best, s, k) ==
    IF k > Len(s) THEN best
    ELSE PyMinFrom(IF s[k] < best THEN s[k] ELSE best, s, k + 1)

\* min(s) of a non-empty list: the first smallest item
PyMin(s) == PyMinFrom(s[1], s, 2)

RECURSIVE PyMaxFrom(_, _, _)
PyMaxFrom(best, s, k) ==
    IF k > Len(s) THEN best
    ELSE PyMaxFrom(IF s[k] > best THEN s[k] ELSE best, s, k + 1)

\* max(s) of a non-empty list
PyMax(s) == PyMaxFrom(s[1], s, 2)

RECURSIVE PySumFrom(_, _, _)
PySumFrom(acc, s, k) == IF k > Len(s) THEN acc ELSE PySumFrom(acc + s[k], s, k + 1)

\* sum(s), starting at 0
PySum(s) == PySumFrom(0, s, 1)

RECURSIVE QSumFrom(_, _, _, _)
QSumFrom(acc, s, average, k) ==
    IF k > Len(s) THEN acc
    ELSE QSumFrom(RatAdd(acc, RatSquare(RatSub(RatOfInt(s[k]), average))), s, average, k + 1)

\* functools.reduce(lambda x, y: x + pow(y[field] - average, 2), records, 0)
QSum(s, average) == QSumFrom(RatOfInt(0), s, average, 1)

\* A fault: the sample form, dividing by n - 1
StdDevRadicandBug(q_sum, n) == RatDivInt(q_sum, IF n = 1 THEN 1 ELSE n - 1)

\* q_sum / len(records), the argument of math.sqrt
StdDevRadicand(q_sum, n) == RatDivInt(q_sum, n)

\* A fault: zeros instead of the ValueError
MinOfEmptyBug(field) ==
    [raised |-> "none", samples |-> <<>>, minimum |-> 0, average |-> RatOfInt(0),
     maximum |-> 0, q_sum |-> RatOfInt(0), std_dev_sq |-> RatOfInt(0)]

\* min([...]) of an empty list raises ValueError before anything else is computed
MinOfEmpty(field) == [raised |-> "ValueError"]

(***************************************************************************)
(* The min/avg/max/dev block of the usage checks, for one intervals list.  *)
(* std_dev_sq is the argument the code hands to math.sqrt.                 *)
(***************************************************************************)
Aggregate(_ints, field) ==
    LET records == FilterByGet(_ints, field)
        samples == FieldOf(records, field)
    IN  IF Len(samples) = 0 THEN MinOfEmpty(field)
        ELSE LET minimum == PyMin(samples)
                 average == TrueDiv(PySum(samples), Len(samples))
                 maximum == PyMax(samples)
                 q_sum   == QSum(samples, average)
             IN  [raised     |-> "none",
                  samples    |-> samples,
                  minimum    |-> minimum,
                  average    |-> average,
                  maximum    |-> maximum,
                  q_sum      |-> q_sum,
                  std_dev_sq |-> StdDevRadicand(q_sum, Len(samples))]

StatsInit ==
    /\ ints \in SeqsUpTo(Intervals, MaxInts)
    /\ aggOut = [raised |-> "notrun"]
    /\ aggPc = "idle"

StatsIdle ==
    /\ ints = <<>>
    /\ aggOut = [raised |-> "notrun"]
    /\ aggPc = "off"

\* check_databases_usage_001: the statistics of one shard's 'total_req'
ShardThroughputStats ==
    /\ aggPc = "idle"
    /\ aggOut' = Aggregate(ints, "total_req")
    /\ aggPc' = "total_req"
    /\ UNCHANGED <<ints, notStats>>

\* check_ram_usage: the statistics of one node's 'free_memory'
NodeRamStats ==
    /\ aggPc = "idle"
    /\ aggOut' = Aggregate(ints, "free_memory")
    /\ aggPc' = "free_memory"
    /\ UNCHANGED <<ints, notStats>>

StatsNext == ShardThroughputStats \/ NodeRamStats

(***************************************************************************)
(* The result renderers.  A text is a sequence of lines (the text split at *)
(* '\n'), a line a sequence of words (the line split at single blanks).    *)
(***************************************************************************)
\* The first element of an outcome tuple: '', True, False, None, the class
\* Exception, or anything else
Outcomes == {"''", "True", "False", "None", "Exception", "1", "'abc'"}

\* The second element of an outcome tuple: a dict, as its items in insertion order
Infos == { <<>>, << <<"uid", "1">> >> }

DocLines ==
    { <<"DU-001:", "Check", "throughput">>,
      <<"Remedy:", "move", "shards">>,
      <<"Remedy:", "add", "shards">>,
      <<"see", "Remedy:">>,
      <<>> }

Docs == SeqsUpTo(DocLines, MaxDocLines) \ { <<>> }

\* The optional third element of an outcome tuple
Descriptions ==
    { << <<"DU-001:", "Check", "throughput", "of", "'db1'">> >>,
      << <<"check">>, <<"Remedy:", "resize">> >> }

OutcomeTuples ==
    { <<o, i>> : o \in Outcomes, i \in Infos }
      \cup { <<o, i, d>> : o \in Outcomes, i \in Infos, d \in Descriptions }

\* text.split('\n')[0]
FirstLine(text) == text[1]

\* The match of 'Remedy: (.*)' in one line: the words after the first 'Remedy: '
\* (the pattern needs the blank, so a line ending in 'Remedy:' has no match)
RemedyMatchAt(line) ==
    { k \in 1..(Len(line) - 1) : line[k] = "Remedy:" }

FirstOf(K) == CHOOSE k \in K : \A j \in K : k <= j

RemedyGroup(line) == SubSeq(line, FirstOf(RemedyMatchAt(line)) + 1, Len(line))

RECURSIVE FindAllFrom(_, _)
FindAllFrom(text, k) ==
    IF k > Len(text) THEN <<>>
    ELSE (IF RemedyMatchAt(text[k]) = {} THEN <<>> ELSE << RemedyGroup(text[k]) >>)
            \o FindAllFrom(text, k + 1)

\* re.findall(r'Remedy: (.*)', text, re.MULTILINE)
FindAllRemedy(text) == FindAllFrom(text, 1)

\* (_result[2] if len(_result) == 3 else _func.__doc__)
DocOrDescription(_result, _doc) == IF Len(_result) = 3 THEN _result[3] ELSE _doc

\* A fault: the Exception marker rendered as FAILED
JsonStatusBug(outcome) ==
    CASE outcome = "''"        -> "SKIPPED"
      [] outcome = "True"      -> "SUCCEEDED"
      [] outcome = "False"     -> "FAILED"
      [] outcome = "None"      -> "NO RESULT"
      [] outcome = "Exception" -> "FAILED"
      [] OTHER                 -> "NotImplementedError"

\* The status branch of render_result: the status word, or the error raised
JsonStatus(outcome) ==
    CASE outcome = "''"        -> "SKIPPED"
      [] outcome = "True"      -> "SUCCEEDED"
      [] outcome = "False"     -> "FAILED"
      [] outcome = "None"      -> "NO RESULT"
      [] outcome = "Exception" -> "ERROR"
      [] OTHER                 -> "NotImplementedError"

\* A fault: the remedy searched whatever the outcome
RemedyOfBug(_result, _doc) == FindAllRemedy(DocOrDescription(_result, _doc))

\* remedy: None (here the empty list, falsy alike) unless the outcome is False
RemedyOf(_result, _doc) ==
    IF _result[1] = "False" THEN FindAllRemedy(DocOrDescription(_result, _doc)) ELSE <<>>

\* json_renderer.render_result: the dict handed to print(json.dumps(...))
JsonRenderResult(_result, _doc) ==
    LET desc   == FirstLine(DocOrDescription(_result, _doc))
        status == JsonStatus(_result[1])
        remedy == RemedyOf(_result, _doc)
    IN  IF status = "NotImplementedError"
        THEN [raised |-> "NotImplementedError", printed |-> <<>>]
        ELSE [raised  |-> "none",
              printed |-> << IF remedy # <<>>
                             THEN [desc |-> desc, status |-> status,
                                   remedy |-> remedy[1], info |-> _result[2]]
                             ELSE [desc |-> desc, status |-> status,
                                   info |-> _result[2]] >>]

\* A fault: '== True' instead of 'is True', so that 1 counts as True
BasicStatusBug(outcome) ==
    CASE outcome = "''"        -> [glyph |-> <<"plain", "[ ]">>, label |-> <<"plain", "[SKIPPED]">>]
      [] outcome \in {"True", "1"} -> [glyph |-> <<"green", "[+]">>, label |-> <<"green", "[SUCCEEDED]">>]
      [] outcome = "False"     -> [glyph |-> <<"red", "[-]">>, label |-> <<"red", "[FAILED]">>]
      [] outcome = "None"      -> [glyph |-> <<"yellow", "[~]">>, label |-> <<"yellow", "[NO RESULT]">>]
      [] outcome = "Exception" -> [glyph |-> <<"magenta", "[*]">>, label |-> <<"magenta", "[ERROR]">>]
      [] OTHER                 -> [glyph |-> <<"none", "NotImplementedError">>,
                                   label |-> <<"none", "NotImplementedError">>]

\* The glyph and the label of basic_renderer.render_result, with their colours
BasicStatus(outcome) ==
    CASE outcome = "''"        -> [glyph |-> <<"plain", "[ ]">>, label |-> <<"plain", "[SKIPPED]">>]
      [] outcome = "True"      -> [glyph |-> <<"green", "[+]">>, label |-> <<"green", "[SUCCEEDED]">>]
      [] outcome = "False"     -> [glyph |-> <<"red", "[-]">>, label |-> <<"red", "[FAILED]">>]
      [] outcome = "None"      -> [glyph |-> <<"yellow", "[~]">>, label |-> <<"yellow", "[NO RESULT]">>]
      [] outcome = "Exception" -> [glyph |-> <<"magenta", "[*]">>, label |-> <<"magenta", "[ERROR]">>]
      [] OTHER                 -> [glyph |-> <<"none", "NotImplementedError">>,
                                   label |-> <<"none", "NotImplementedError">>]

\* ', '.join([str(k) + ': ' + str(v) for k, v in _result[1].items()])
InfoText(info) == [k \in 1..Len(info) |-> <<info[k][1], ": ", info[k][2]>>]

\* basic_renderer.render_result: the parts of the printed line, in order
BasicRenderResult(_result, _doc) ==
    LET doc    == FirstLine(DocOrDescription(_result, _doc))
        st     == BasicStatus(_result[1])
        remedy == RemedyOf(_result, _doc)
    IN  IF st.glyph[2] = "NotImplementedError"
        THEN [raised |-> "NotImplementedError", printed |-> <<>>]
        ELSE [raised  |-> "none",
              printed |-> << IF remedy # <<>>
                             THEN [glyph |-> st.glyph, desc |-> doc, status |-> st.label,
                                   info |-> InfoText(_result[2]),
                                   remedy |-> <<"cyan", "Remedy:", remedy[1]>>]
                             ELSE [glyph |-> st.glyph, desc |-> doc, status |-> st.label,
                                   info |-> InfoText(_result[2])] >>]

RenderInit ==
    /\ rResult \in OutcomeTuples
    /\ rDoc \in Docs
    /\ rOut = [raised |-> "none", printed |-> <<>>]
    /\ rPc = "idle"

RenderIdle ==
    /\ rResult = <<"None", <<>>>>
    /\ rDoc = << <<>> >>
    /\ rOut = [raised |-> "none", printed |-> <<>>]
    /\ rPc = "off"

\* One call of json_renderer.render_result
JsonRender ==
    /\ rPc = "idle"
    /\ rOut' = JsonRenderResult(rResult, rDoc)
    /\ rPc' = "json"
    /\ UNCHANGED <<rResult, rDoc, notRender>>

\* One call of basic_renderer.render_result
BasicRender ==
    /\ rPc = "idle"
    /\ rOut' = BasicRenderResult(rResult, rDoc)
    /\ rPc' = "basic"
    /\ UNCHANGED <<rResult, rDoc, notRender>>

RenderNext == JsonRender \/ BasicRender

(***************************************************************************)
(* ApiFetcher.  A response is the decoded JSON body: a list of dicts       *)
(* ('nodes') or a dict ('cluster').                                        *)
(***************************************************************************)
Topics == {"nodes", "cluster"}

Keys == {"uid", "name"}

Node1 == [addr |-> "10.0.0.1", uid |-> 1]

Node2 == [addr |-> "10.0.0.2", uid |-> 2]

InternalAddrs == {"10.0.0.1", "10.0.0.2", "10.0.0.9"}

ListRsp(items) == [type |-> "list", items |-> items]

DictRsp(items) == [type |-> "dict", items |-> items]

\* The bodies the REST-API may answer with
Responses(topic) ==
    IF topic = "nodes"
    THEN { ListRsp(<<>>), ListRsp(<<Node1>>), ListRsp(<<Node1, Node2>>) }
    ELSE { DictRsp([name |-> "cluster1"]), DictRsp([uid |-> 7]) }

\* The exceptions http_get may raise, by the attributes print_error looks at:
\* an HTTPError (reason is a str), a URLError around an OSError with a message,
\* a URLError around a timeout (its strerror is None)
HttpErrors ==
    { [cls |-> "HTTPError", reason |-> "str", strerror |-> "absent",
       stderr |-> "absent", args0 |-> "absent"],
      [cls |-> "URLError", reason |-> "exc", strerror |-> "str",
       stderr |-> "absent", args0 |-> "exc"],
      [cls |-> "URLError", reason |-> "exc", strerror |-> "None",
       stderr |-> "absent", args0 |-> "exc"] }

\* KeyError(key), TypeError(message): only args is set
PlainError(cls) ==
    [cls |-> cls, reason |-> "absent", strerror |-> "absent", stderr |-> "absent",
     args0 |-> "str"]

\* _config['api']['addr'], split at ':': a host name without and with a port,
\* and a bracketed IPv6 literal without a port
ConfiguredAddrs ==
    { <<"cluster.local">>, <<"cluster.local", ":", "8443">>,
      <<"[fd00", ":", ":", "1]">> }

\* ':' in self.addr
HasColon(_addr) == \E k \in 1..Len(_addr) : _addr[k] = ":"

\* The url _fetch requests
UrlOf(_addr, _topic) ==
    IF HasColon(_addr)
    THEN <<"https://">> \o _addr \o <<"/v1/", _topic>>
    ELSE <<"https://">> \o _addr \o <<":9443", "/v1/", _topic>>

\* http_get(url, username, password): a decoded body, or an exception
HttpGet(_topic) ==
    { [raised |-> "none", rsp |-> r] : r \in Responses(_topic) }
      \cup { [raised |-> e.cls, exc |-> e] : e \in HttpErrors }

\* A fault: the cache is never consulted
IsCachedBug(_cache, _topic) == FALSE

\* _topic in self.cache
IsCached(_cache, _topic) == _topic \in DOMAIN _cache

\* A fault: the cache replaced by one that holds the new entry only
CacheStoreBug(_cache, _topic, rsp) == [t \in {_topic} |-> rsp]

\* self.cache[_topic] = rsp
CacheStore(_cache, _topic, rsp) ==
    [t \in DOMAIN _cache \cup {_topic} |-> IF t = _topic THEN rsp ELSE _cache[t]]

\* A fault: a failed http_get call is caught and an empty body stored for the
\* topic before the exception is raised again
FetchBug(_cache, _addr, _topic) ==
    IF IsCached(_cache, _topic)
    THEN { [cache |-> _cache, calls |-> <<>>, raised |-> "none", rsp |-> _cache[_topic]] }
    ELSE LET url == UrlOf(_addr, _topic)
         IN  { IF h.raised = "none"
               THEN [cache  |-> CacheStore(_cache, _topic, h.rsp),
                     calls  |-> << [url |-> url, topic |-> _topic, ok |-> TRUE] >>,
                     raised |-> "none",
                     rsp    |-> h.rsp]
               ELSE [cache  |-> CacheStore(_cache, _topic, DictRsp(<< >>)),
                     calls  |-> << [url |-> url, topic |-> _topic, ok |-> FALSE] >>,
                     raised |-> h.raised,
                     exc    |-> h.exc]
               : h \in HttpGet(_topic) }

\* _fetch(_topic): every way the call can end, as the cache it leaves, the
\* http_get calls it made, and what it returned or raised
Fetch(_cache, _addr, _topic) ==
    IF IsCached(_cache, _topic)
    THEN { [cache |-> _cache, calls |-> <<>>, raised |-> "none", rsp |-> _cache[_topic]] }
    ELSE LET url == UrlOf(_addr, _topic)
         IN  { IF h.raised = "none"
               THEN [cache  |-> CacheStore(_cache, _topic, h.rsp),
                     calls  |-> << [url |-> url, topic |-> _topic, ok |-> TRUE] >>,
                     raised |-> "none",
                     rsp    |-> h.rsp]
               ELSE [cache  |-> _cache,
                     calls  |-> << [url |-> url, topic |-> _topic, ok |-> FALSE] >>,
                     raised |-> h.raised,
                     exc    |-> h.exc]
               : h \in HttpGet(_topic) }

\* A call returned v / raised the exception e
Returned(op, arg, v) == [op |-> op, arg |-> arg, raised |-> "none", value |-> v]

Raised(op, arg, e) == [op |-> op, arg |-> arg, raised |-> e.cls, exc |-> e]

\* rsp[_key]
GetValueOf(op, arg, rsp, _key) ==
    IF rsp.type = "list" THEN Raised(op, arg, PlainError("TypeError"))
    ELSE IF _key \in DOMAIN rsp.items THEN Returned(op, arg, rsp.items[_key])
    ELSE Raised(op, arg, PlainError("KeyError"))

\* [node[_key] for node in rsp]: iterating a dict gives its keys, which are strings
GetValuesOf(op, arg, rsp, _key) ==
    IF rsp.type = "dict"
    THEN IF DOMAIN rsp.items = {} THEN Returned(op, arg, <<>>)
         ELSE Raised(op, arg, PlainError("TypeError"))
    ELSE IF \E k \in 1..Len(rsp.items) : _key \notin DOMAIN rsp.items[k]
         THEN Raised(op, arg, PlainError("KeyError"))
         ELSE Returned(op, arg, [k \in 1..Len(rsp.items) |-> rsp.items[k][_key]])

\* len(rsp)
LenOf(rsp) == IF rsp.type = "list" THEN Len(rsp.items) ELSE Cardinality(DOMAIN rsp.items)

\* The state after _fetch ended as f, with the call's result ret
AfterFetch(f, ret) ==
    /\ cache' = f.cache
    /\ httpLog' = httpLog \o f.calls
    /\ apiRet' = ret

\* A call that needs the topic may start: a miss makes one more http_get call
MayFetch(_topic) == IsCached(cache, _topic) \/ Len(httpLog) < MaxHttpCalls

ApiInit ==
    /\ addr \in ConfiguredAddrs
    /\ cache = << >>
    /\ uids = << >>
    /\ connected = "None"
    /\ httpLog = << >>
    /\ uidBuilds = 0
    /\ apiRet = [op |-> "__init__", arg |-> <<>>, raised |-> "none", value |-> "None"]

ApiIdle ==
    /\ addr = << >>
    /\ cache = << >>
    /\ uids = << >>
    /\ connected = "None"
    /\ httpLog = << >>
    /\ uidBuilds = 0
    /\ apiRet = [op |-> "off", arg |-> <<>>, raised |-> "none", value |-> "None"]

\* get(_topic)
Get(_topic) ==
    /\ MayFetch(_topic)
    /\ \E f \in Fetch(cache, addr, _topic) :
         AfterFetch(f, IF f.raised = "none" THEN Returned("get", <<_topic>>, f.rsp)
                       ELSE Raised("get", <<_topic>>, f.exc))
    /\ UNCHANGED <<addr, uids, connected, uidBuilds, notApi>>

\* get_with_value(_topic, _key, _value): the filter object is lazy, the lambda
\* runs only when the caller iterates it
GetWithValue(_topic, _key, _value) ==
    /\ MayFetch(_topic)
    /\ \E f \in Fetch(cache, addr, _topic) :
         AfterFetch(f, IF f.raised = "none"
                       THEN Returned("get_with_value", <<_topic, _key, _value>>,
                                     [filter |-> <<_key, _value>>, over |-> f.rsp])
                       ELSE Raised("get_with_value", <<_topic, _key, _value>>, f.exc))
    /\ UNCHANGED <<addr, uids, connected, uidBuilds, notApi>>

\* get_value(_topic, _key)
GetValue(_topic, _key) ==
    /\ MayFetch(_topic)
    /\ \E f \in Fetch(cache, addr, _topic) :
         AfterFetch(f, IF f.raised = "none"
                       THEN GetValueOf("get_value", <<_topic, _key>>, f.rsp, _key)
                       ELSE Raised("get_value", <<_topic, _key>>, f.exc))
    /\ UNCHANGED <<addr, uids, connected, uidBuilds, notApi>>

\* get_values(_topic, _key)
GetValues(_topic, _key) ==
    /\ MayFetch(_topic)
    /\ \E f \in Fetch(cache, addr, _topic) :
         AfterFetch(f, IF f.raised = "none"
                       THEN GetValuesOf("get_values", <<_topic, _key>>, f.rsp, _key)
                       ELSE Raised("get_values", <<_topic, _key>>, f.exc))
    /\ UNCHANGED <<addr, uids, connected, uidBuilds, notApi>>

\* get_number_of_values(_topic)
GetNumberOfValues(_topic) ==
    /\ MayFetch(_topic)
    /\ \E f \in Fetch(cache, addr, _topic) :
         AfterFetch(f, IF f.raised = "none"
                       THEN Returned("get_number_of_values", <<_topic>>, LenOf(f.rsp))
                       ELSE Raised("get_number_of_values", <<_topic>>, f.exc))
    /\ UNCHANGED <<addr, uids, connected, uidBuilds, notApi>>

\* get_sum_of_values(_topic, _key): sum() of the values get_values collects
GetSumOfValues(_topic, _key) ==
    /\ MayFetch(_topic)
    /\ \E f \in Fetch(cache, addr, _topic) :
         AfterFetch(f,
            IF f.raised # "none" THEN Raised("get_sum_of_values", <<_topic, _key>>, f.exc)
            ELSE LET vs == GetValuesOf("get_sum_of_values", <<_topic, _key>>, f.rsp, _key)
                 IN  IF vs.raised # "none" THEN vs
                     ELSE IF _key = "name" /\ Len(vs.value) > 0
                          THEN Raised("get_sum_of_values", <<_topic, _key>>,
                                      PlainError("TypeError"))
                          ELSE Returned("get_sum_of_values", <<_topic, _key>>,
                                        PySum(vs.value)))
    /\ UNCHANGED <<addr, uids, connected, uidBuilds, notApi>>

\* {node['addr']: node['uid'] for node in nodes}
UidIndex(nodes) ==
    [a \in { nodes[k].addr : k \in 1..Len(nodes) } |->
        LET last == CHOOSE k \in 1..Len(nodes) :
                       /\ nodes[k].addr = a
                       /\ \A j \in (k + 1)..Len(nodes) : nodes[j].addr # a
        IN  nodes[last].uid]

\* not self.uids
UidsUnbuilt(_uids, builds) == DOMAIN _uids = {}

\* self.uids[_internal_addr]
UidLookup(_uids, _internal_addr) ==
    IF _internal_addr \in DOMAIN _uids
    THEN Returned("get_uid", <<_internal_addr>>, _uids[_internal_addr])
    ELSE Raised("get_uid", <<_internal_addr>>, PlainError("KeyError"))

\* get_uid(_internal_addr)
GetUid(_internal_addr) ==
    /\ IF UidsUnbuilt(uids, uidBuilds)
       THEN /\ MayFetch("nodes")
            /\ uidBuilds < MaxUidBuilds
            /\ \E f \in Fetch(cache, addr, "nodes") :
                 IF f.raised = "none"
                 THEN /\ uids' = UidIndex(f.rsp.items)
                      /\ uidBuilds' = uidBuilds + 1
                      /\ AfterFetch(f, UidLookup(UidIndex(f.rsp.items), _internal_addr))
                 ELSE /\ UNCHANGED <<uids, uidBuilds>>
                      /\ AfterFetch(f, Raised("get_uid", <<_internal_addr>>, f.exc))
       ELSE /\ apiRet' = UidLookup(uids, _internal_addr)
            /\ UNCHANGED <<cache, httpLog, uids, uidBuilds>>
    /\ UNCHANGED <<addr, connected, notApi>>

\* print_error(_msg, _ex) for an exception: "printed", or the error raised while
\* collecting and joining the parts
PrintError(_ex) ==
    LET part == IF _ex.reason # "absent"
                THEN (IF _ex.reason = "str" THEN "str"
                      ELSE IF _ex.strerror = "absent" THEN "AttributeError"
                      ELSE _ex.strerror)
                ELSE IF _ex.strerror # "absent" THEN _ex.strerror
                ELSE IF _ex.stderr # "absent" THEN _ex.stderr
                ELSE IF _ex.args0 = "absent" THEN "IndexError"
                ELSE _ex.args0
    IN  CASE part = "str" -> "printed"
          [] part \in {"AttributeError", "IndexError"} -> part
          [] OTHER -> "TypeError"

\* check_connection()
CheckConnection ==
    /\ IF connected # "None"
       THEN /\ apiRet' = Returned("check_connection", <<>>, "None")
            /\ UNCHANGED <<cache, httpLog, connected>>
       ELSE /\ MayFetch("cluster")
            /\ \E f \in Fetch(cache, addr, "cluster") :
                 LET got == IF f.raised = "none"
                            THEN GetValueOf("get_value", <<"cluster", "name">>, f.rsp, "name")
                            ELSE Raised("get_value", <<"cluster", "name">>, f.exc)
                 IN  /\ cache' = f.cache
                     /\ httpLog' = httpLog \o f.calls
                     /\ IF got.raised = "none"
                        THEN /\ connected' = "True"
                             /\ apiRet' = Returned("check_connection", <<>>, "None")
                        ELSE IF PrintError(got.exc) = "printed"
                        THEN /\ connected' = "False"
                             /\ apiRet' = Returned("check_connection", <<>>, "None")
                        ELSE /\ connected' = connected
                             /\ apiRet' = Raised("check_connection", <<>>,
                                                 PlainError(PrintError(got.exc)))
    /\ UNCHANGED <<addr, uids, uidBuilds, notApi>>

ApiNext ==
    \/ \E t \in Topics : Get(t)
    \/ \E t \in Topics, k \in Keys : GetWithValue(t, k, 1)
    \/ \E t \in Topics, k \in Keys : GetValue(t, k)
    \/ \E t \in Topics, k \in Keys : GetValues(t, k)
    \/ \E t \in Topics : GetNumberOfValues(t)
    \/ \E t \in Topics, k \in Keys : GetSumOfValues(t, k)
    \/ \E a \in InternalAddrs : GetUid(a)
    \/ CheckConnection

(***************************************************************************)
(* The check runner: runs the registry in order, turns what each check     *)
(* returned or raised into outcome tuples, forwards each to the active     *)
(* renderer and counts it.                                                 *)
(***************************************************************************)
RunnerDocs ==
    { << <<"get", "OS", "version">> >>,
      << <<"DC-003:", "Check">>, <<"Remedy:", "move", "shards">> >> }

\* What a check may return: one outcome tuple, or a list of outcome tuples
CheckReturns ==
    { << <<o, <<>>>> >> : o \in {"''", "True", "False", "None"} }
      \cup { << <<"False", << <<"uid", "1">> >>,
                  << <<"DU-001:", "Check", "throughput", "of", "'db1'">> >> >> >>,
             << <<"True", <<>>>>, <<"False", <<>>>> >> }

\* The outcome tuple the runner makes of an error raised by the check
ErroredRecord == <<"Exception", <<>>>>

ZeroStats == [succeeded |-> 0, no_result |-> 0, failed |-> 0, errors |-> 0, skipped |-> 0]

\* The counter an outcome is counted in
CounterOf(outcome) ==
    CASE outcome = "''"        -> "skipped"
      [] outcome = "True"      -> "succeeded"
      [] outcome = "False"     -> "failed"
      [] outcome = "None"      -> "no_result"
      [] outcome = "Exception" -> "errors"

\* The stats collector counts one record
CollectStats(_stats, _result) ==
    [_stats EXCEPT ![CounterOf(_result[1])] = @ + 1]

\* render_result of the active renderer
RenderResult(_renderer, _result, _doc) ==
    IF _renderer = "json" THEN JsonRenderResult(_result, _doc)
    ELSE BasicRenderResult(_result, _doc)

\* The records of one check forwarded one by one: render, then count
RECURSIVE Forward(_, _, _, _, _, _)
Forward(_renderer, _doc, records, k, out, _stats) ==
    IF k > Len(records) THEN [out |-> out, stats |-> _stats]
    ELSE Forward(_renderer, _doc, records, k + 1,
                 out \o RenderResult(_renderer, records[k], _doc).printed,
                 CollectStats(_stats, records[k]))

\* A fault: the total leaves out the skipped records
JsonRenderStatsBug(_stats) ==
    [total     |-> PySum(<<_stats.succeeded, _stats.no_result, _stats.failed,
                           _stats.errors>>),
     succeeded |-> _stats.succeeded,
     no_result |-> _stats.no_result,
     failed    |-> _stats.failed,
     errors    |-> _stats.errors,
     skipped   |-> _stats.skipped]

\* render_stats of the json renderer: the dict handed to print(json.dumps(...))
JsonRenderStats(_stats) ==
    [total     |-> PySum(<<_stats.succeeded, _stats.no_result, _stats.failed,
                           _stats.errors, _stats.skipped>>),
     succeeded |-> _stats.succeeded,
     no_result |-> _stats.no_result,
     failed    |-> _stats.failed,
     errors    |-> _stats.errors,
     skipped   |-> _stats.skipped]

\* render_stats of the basic renderer: the printed lines
BasicRenderStats(_stats) ==
    [blank     |-> "",
     total     |-> PySum(<<_stats.succeeded, _stats.no_result, _stats.failed,
                           _stats.errors, _stats.skipped>>),
     succeeded |-> <<"green", _stats.succeeded>>,
     no_result |-> <<"yellow", _stats.no_result>>,
     failed    |-> <<"red", _stats.failed>>,
     errors    |-> <<"magenta", _stats.errors>>,
     skipped   |-> <<"plain", _stats.skipped>>]

RunInit ==
    /\ registry \in SeqsUpTo(RunnerDocs, MaxChecks) \ { <<>> }
    /\ renderer \in {"json", "basic"}
    /\ runPos = 1
    /\ runStats = ZeroStats
    /\ runOut = << >>
    /\ runLog = << >>
    /\ runPc = "running"

RunIdle ==
    /\ registry = << >>
    /\ renderer = "json"
    /\ runPos = 1
    /\ runStats = ZeroStats
    /\ runOut = << >>
    /\ runLog = << >>
    /\ runPc = "off"

\* The runner's step for the registry entry at runPos, whose check ended with
\* the given records (raised: the check raised and the records are the runner's)
RunStep(raised, records) ==
    LET fw == Forward(renderer, registry[runPos], records, 1, runOut, runStats)
    IN  /\ runOut' = fw.out
        /\ runStats' = fw.stats
        /\ runLog' = Append(runLog, [raised |-> raised, first |-> Len(runOut) + 1,
                                     printed |-> Len(fw.out) - Len(runOut),
                                     before |-> runStats, after |-> fw.stats])
        /\ runPos' = runPos + 1
        /\ UNCHANGED <<registry, renderer, runPc, notRun>>

\* The check at runPos returns one outcome tuple or a list of them
CheckReturned ==
    /\ runPc = "running"
    /\ runPos <= Len(registry)
    /\ \E records \in CheckReturns : RunStep(FALSE, records)

\* The check at runPos raises; the runner catches the error
CheckRaised ==
    /\ runPc = "running"
    /\ runPos <= Len(registry)
    /\ RunStep(TRUE, << ErroredRecord >>)

\* After the last registry entry the renderer prints the final counters
RenderFinalStats ==
    /\ runPc = "running"
    /\ runPos > Len(registry)
    /\ runOut' = Append(runOut, IF renderer = "json" THEN JsonRenderStats(runStats)
                                ELSE BasicRenderStats(runStats))
    /\ runPc' = "done"
    /\ UNCHANGED <<registry, renderer, runPos, runStats, runLog, notRun>>

RunNext == CheckReturned \/ CheckRaised \/ RenderFinalStats

(***************************************************************************)
(* RemoteExecutor: one exec_broad or exec_multi batch.  The call hands     *)
(* each command to a worker of the pool, which exists for the duration of  *)
(* the call, and returns one handle per command; the caller then resolves  *)
(* the handles in list order.                                              *)
(***************************************************************************)
Targets == 1..NumTargets

Commands == {"df -h", "rlcheck"}

\* The standard output of a command that ran on a target
OutputOf(cmd, target) == <<"stdout", cmd, target>>

\* The (command, target) pairs an exec_multi call may get
PairLists == SeqsUpTo(Commands \X Targets, MaxPairs) \ { <<>> }

\* The pairs exec_broad dispatches: the command on every target, in target order
BroadPairs(cmd) == [t \in Targets |-> <<cmd, t>>]

\* The orders in which a call may return the handles of n commands
Orders(n) == { f \in [1..n -> 1..n] : \A i, j \in 1..n : f[i] = f[j] => i = j }

\* A fault: every handle tagged with the first pair
HandlesOfBug(pairs, order) ==
    [k \in 1..Len(pairs) |->
        [target |-> pairs[order[1]][2], cmd |-> pairs[order[1]][1],
         st |-> "queued", result |-> <<>>]]

\* The handles of a batch, as the call returns them: one per pair, tagged with
\* the pair's target
HandlesOf(pairs, order) ==
    [k \in 1..Len(pairs) |->
        [target |-> pairs[order[k]][2], cmd |-> pairs[order[k]][1],
         st |-> "queued", result |-> <<>>]]

\* The pool runs at most one command per target at a time
MayStart(hs, k) ==
    /\ hs[k].st = "queued"
    /\ \A j \in 1..Len(hs) : hs[j].st = "running" => hs[j].target # hs[k].target

\* A fault: a failing command fails every unfinished handle of the batch
AfterCommandBug(hs, k, ok) ==
    IF ok
    THEN [hs EXCEPT ![k].st = "ok", ![k].result = OutputOf(hs[k].cmd, hs[k].target)]
    ELSE [j \in 1..Len(hs) |->
            IF hs[j].st \in {"queued", "running"} THEN [hs[j] EXCEPT !.st = "failed"]
            ELSE hs[j]]

\* The handles after the command of handle k ended (ok: with exit status 0)
AfterCommand(hs, k, ok) ==
    IF ok
    THEN [hs EXCEPT ![k].st = "ok", ![k].result = OutputOf(hs[k].cmd, hs[k].target)]
    ELSE [hs EXCEPT ![k].st = "failed"]

RexInit ==
    /\ handles = << >>
    /\ doneOrder = << >>
    /\ cmdFailed = {}
    /\ resolved = 0
    /\ batch = "none"
    /\ rexPc = "idle"

RexIdle ==
    /\ handles = << >>
    /\ doneOrder = << >>
    /\ cmdFailed = {}
    /\ resolved = 0
    /\ batch = "none"
    /\ rexPc = "off"

\* exec_broad(cmd)
ExecBroad ==
    /\ rexPc = "idle"
    /\ \E cmd \in Commands, order \in Orders(NumTargets) :
         handles' = HandlesOf(BroadPairs(cmd), order)
    /\ batch' = "broad"
    /\ rexPc' = "dispatched"
    /\ UNCHANGED <<doneOrder, cmdFailed, resolved, notRex>>

\* exec_multi(cmd_targets)
ExecMulti ==
    /\ rexPc = "idle"
    /\ \E pairs \in PairLists : \E order \in Orders(Len(pairs)) :
         handles' = HandlesOf(pairs, order)
    /\ batch' = "multi"
    /\ rexPc' = "dispatched"
    /\ UNCHANGED <<doneOrder, cmdFailed, resolved, notRex>>

\* A worker of the pool starts the command of a handle
WorkerStart ==
    /\ \E k \in 1..Len(handles) :
         /\ MayStart(handles, k)
         /\ handles' = [handles EXCEPT ![k].st = "running"]
    /\ UNCHANGED <<doneOrder, cmdFailed, resolved, batch, rexPc, notRex>>

\* The command of a handle ends with exit status 0
CommandSucceeds ==
    /\ \E k \in 1..Len(handles) :
         /\ handles[k].st = "running"
         /\ handles' = AfterCommand(handles, k, TRUE)
         /\ doneOrder' = Append(doneOrder, k)
    /\ UNCHANGED <<cmdFailed, resolved, batch, rexPc, notRex>>

\* The command of a handle fails: non-zero exit status, connection drop
CommandFails ==
    /\ \E k \in 1..Len(handles) :
         /\ handles[k].st = "running"
         /\ handles' = AfterCommand(handles, k, FALSE)
         /\ doneOrder' = Append(doneOrder, k)
         /\ cmdFailed' = cmdFailed \cup {k}
    /\ UNCHANGED <<resolved, batch, rexPc, notRex>>

\* A fault: the call returns as soon as the commands are handed to the pool
MayReturnBug(hs) == TRUE

\* The pool is shut down before the call returns: every command has ended
MayReturn(hs) == \A k \in 1..Len(hs) : hs[k].st \in {"ok", "failed"}

\* exec_broad / exec_multi returns the handles to the check
CallReturns ==
    /\ rexPc = "dispatched"
    /\ MayReturn(handles)
    /\ rexPc' = "resolving"
    /\ UNCHANGED <<handles, doneOrder, cmdFailed, resolved, batch, notRex>>

\* rsp.result() of the next handle of the list returns the output
ResolveNext ==
    /\ rexPc = "resolving"
    /\ resolved < Len(handles)
    /\ handles[resolved + 1].st = "ok"
    /\ resolved' = resolved + 1
    /\ rexPc' = IF resolved + 1 = Len(handles) THEN "finished" ELSE rexPc
    /\ UNCHANGED <<handles, doneOrder, cmdFailed, batch, notRex>>

\* rsp.result() of the next handle of the list raises: the check ends there
ResolveRaises ==
    /\ rexPc = "resolving"
    /\ resolved < Len(handles)
    /\ handles[resolved + 1].st = "failed"
    /\ rexPc' = "raised"
    /\ UNCHANGED <<handles, doneOrder, cmdFailed, resolved, batch, notRex>>

\* The check that made the batch has ended, by returning or by raising, and the
\* runner starts the next registry entry
NextCheckStarts ==
    /\ rexPc \in {"raised", "finished"}
    /\ rexPc' = "next"
    /\ UNCHANGED <<handles, doneOrder, cmdFailed, resolved, batch, notRex>>

RexNext ==
    \/ NextCheckStarts
    \/ ExecBroad
    \/ ExecMulti
    \/ WorkerStart
    \/ CommandSucceeds
    \/ CommandFails
    \/ CallReturns
    \/ ResolveNext
    \/ ResolveRaises

(***************************************************************************)
(* The checks of the suites, each a function of what it reads from the     *)
(* REST-API or from the nodes.  A dict is kept as its items in insertion    *)
(* order; the databases of a response have pairwise different names.       *)
(***************************************************************************)
\* The 'status' of a replica_sources / crdt_sources entry
SourceStatuses == {"in-sync", "out-of-sync"}

\* The 'replica_sources' / 'crdt_sources' lists of a database
SourceLists ==
    { <<>>, <<"in-sync">>, <<"out-of-sync">>, <<"in-sync", "out-of-sync">>,
      <<"out-of-sync", "in-sync">> }

\* The 'replica_sync' / 'crdt_sync' values of a database
SyncValues == {"enabled", "in-sync"}

\* The databases of the 'bdbs' topic, as far as the status checks read them:
\* a plain database, a replica-of database or a CRDB
SyncBdbs ==
    { [replica_sync |-> "disabled", replica_sources |-> <<>>,
       crdt_sync |-> "disabled", crdt_sources |-> <<>>] }
      \cup { [replica_sync |-> y, replica_sources |-> l,
              crdt_sync |-> "disabled", crdt_sources |-> <<>>] :
              y \in SyncValues, l \in SourceLists \ { <<>> } }
      \cup { [replica_sync |-> "disabled", replica_sources |-> <<>>,
              crdt_sync |-> y, crdt_sources |-> l] :
              y \in SyncValues, l \in SourceLists \ { <<>> } }

\* list(x.values()) of one info entry: the sync value first, then one dict per
\* source address
InfoValues(bdb, sync, sources) ==
    <<bdb[sync]>> \o [k \in 1..Len(bdb[sources]) |-> [status |-> bdb[sources][k]]]

\* The info dict of a status check: one entry per database with sources
RECURSIVE SyncInfoFrom(_, _, _, _)
SyncInfoFrom(bdbs, sync, sources, k) ==
    IF k > Len(bdbs) THEN <<>>
    ELSE (IF Len(bdbs[k][sources]) > 0
          THEN << [name |-> k, values |-> InfoValues(bdbs[k], sync, sources)] >>
          ELSE <<>>) \o SyncInfoFrom(bdbs, sync, sources, k + 1)

\* all(filter(lambda x: x[0] == 'in-sync', map(lambda x: list(x.values()),
\* info.values()))): all() tests the truthiness of each kept list, and a kept
\* list holds at least the sync value
SyncResult(info) ==
    LET lists == [i \in 1..Len(info) |-> info[i].values]
        kept  == SelectSeq(lists, LAMBDA x : x[1] = "in-sync")
    IN  \A i \in 1..Len(kept) : Len(kept[i]) > 0

\* check_databases_status_001 / _002 for the given fields of the databases
SyncCheck(bdbs, sync, sources) ==
    LET info == SyncInfoFrom(bdbs, sync, sources, 1)
    IN  [raised |-> "none",
         result |-> IF Len(info) > 0
                    THEN (IF SyncResult(info) THEN "True" ELSE "False")
                    ELSE "''",
         info   |-> info]

\* The bytes of a gigabyte; the model counts memory in MiB
GB == 1024

\* The 'intervals' of the stats of one shard: a shard under every limit of a
\* plain database, a shard over them in its second interval, and a shard whose
\* intervals hold no sample
QuietShard == << [total_req |-> 20000, used_memory |-> 20 * GB] >>

BusyShard ==
    << [total_req |-> 10000, used_memory |-> 10 * GB],
       [total_req |-> 30000, used_memory |-> 30 * GB] >>

IdleShard == << [total_req |-> 0, used_memory |-> 0] >>

\* bdb['shard_list'], each shard as the intervals of its 'shards/stats/{uid}'
ShardLists ==
    { <<>>, <<QuietShard>>, <<BusyShard>>, <<IdleShard>>,
      <<QuietShard, BusyShard>>, <<BusyShard, QuietShard>>, <<BusyShard, BusyShard>> }

\* The databases of the 'bdbs' topic, as far as the usage checks read them
UsageBdbs ==
    { [bigstore |-> b, crdt_sync |-> y, shard_list |-> l] :
        b \in BOOLEAN, y \in {"disabled", "enabled"}, l \in ShardLists }

\* The limit check_databases_usage_001 compares a shard's maximum with
ThroughputLimit(bdb) ==
    IF bdb.bigstore THEN 5000
    ELSE IF bdb.crdt_sync # "disabled" THEN 17500
    ELSE 25000

\* The limit check_databases_usage_002 compares a shard's maximum with
MemoryLimit(bdb) == IF bdb.bigstore THEN 50 * GB ELSE 25 * GB

UsageLimit(bdb, field) ==
    IF field = "total_req" THEN ThroughputLimit(bdb) ELSE MemoryLimit(bdb)

\* The loop over the shards of one database: 'raised' once the statistics of
\* a shard raise, else results[bdb['name']] as the last assignment left it
\* (unset when the database has no shard) and the info entries of the shards
RECURSIVE ShardLoop(_, _, _, _)
ShardLoop(bdb, field, k, acc) ==
    IF k > Len(bdb.shard_list) THEN acc
    ELSE LET st == Aggregate(bdb.shard_list[k], field)
         IN  IF st.raised # "none" THEN [raised |-> st.raised]
             ELSE ShardLoop(bdb, field, k + 1,
                            [raised |-> "none",
                             set    |-> TRUE,
                             result |-> st.maximum > UsageLimit(bdb, field),
                             info   |-> Append(acc.info,
                                               <<st.minimum, st.average, st.maximum,
                                                 st.std_dev_sq>>)])

\* The loop over the databases, up to the first error raised
RECURSIVE BdbLoop(_, _, _, _)
BdbLoop(bdbs, field, k, acc) ==
    IF k > Len(bdbs) THEN [raised |-> "none", perBdb |-> acc]
    ELSE LET r == ShardLoop(bdbs[k], field, 1,
                            [raised |-> "none", set |-> FALSE, result |-> FALSE,
                             info |-> <<>>])
         IN  IF r.raised # "none" THEN [raised |-> r.raised]
             ELSE BdbLoop(bdbs, field, k + 1, Append(acc, r))

\* check_databases_usage_001 / _002: the list of outcome tuples, one per
\* database, or the error raised; results[bdb['name']] of a database without
\* shards raises KeyError when the list is built
UsageCheck(bdbs, field) ==
    LET loop == BdbLoop(bdbs, field, 1, <<>>)
    IN  IF loop.raised # "none" THEN [raised |-> loop.raised]
        ELSE IF \E k \in 1..Len(bdbs) : ~loop.perBdb[k].set
        THEN [raised |-> "KeyError"]
        ELSE [raised  |-> "none",
              records |-> [k \in 1..Len(bdbs) |->
                             <<IF ~loop.perBdb[k].result THEN "True" ELSE "False",
                               loop.perBdb[k].info,
                               <<"db", k>> >>]]

\* rsp.result() of a 'sudo df -h {path}' handle: the header line and the line
\* of the filesystem, each as its words; or the error the handle resolves to
DfResults ==
    { [raised |-> "none",
       lines  |-> << <<"Filesystem", "Size", "Used", "Avail", "Use%", "Mounted", "on">>,
                     <<fs, "20G", "5G", "15G", "25%", "/var">> >>] :
        fs \in {"/dev/root", "/dev/sda1"} }
      \cup { [raised |-> "Exception"] }

\* rsp.result() of a 'grep swap /etc/sysctl.conf || echo inactive' handle
SwapResults ==
    { [raised |-> "none", text |-> t] : t \in {"inactive", "vm.swappiness=10"} }
      \cup { [raised |-> "Exception"] }

\* any([...]) over a list of booleans
PyAny(bools) == \E k \in 1..Len(bools) : bools[k]

\* re.match(r'^([\w+/]+)\s+.*$', rsp.result().split('\n')[1]).group(1): the
\* first word of the second line
FileSystemOf(result) == result.lines[2][1]

\* check_log_file_path, check_ephemeral_storage_path and
\* check_persistent_storage_path, for the handles exec_broad returned
PathCheck(rsps) ==
    IF \E k \in 1..Len(rsps) : rsps[k].raised # "none" THEN [raised |-> "Exception"]
    ELSE LET file_paths == [k \in 1..Len(rsps) |-> FileSystemOf(rsps[k])]
         IN  [raised |-> "none",
              result |-> IF PyAny([k \in 1..Len(rsps) |-> file_paths[k] # "/dev/root"])
                         THEN "True" ELSE "False",
              info   |-> file_paths]

\* check_swappiness, for the handles exec_broad returned
SwapCheck(rsps) ==
    IF \E k \in 1..Len(rsps) : rsps[k].raised # "none" THEN [raised |-> "Exception"]
    ELSE LET swappinesses == [k \in 1..Len(rsps) |-> rsps[k].text]
         IN  [raised |-> "none",
              result |-> IF PyAny([k \in 1..Len(rsps) |-> swappinesses[k] = "inactive"])
                         THEN "True" ELSE "False",
              info   |-> swappinesses]

\* The databases of the 'bdbs' topic, as far as check_databases_config_003
\* reads them; endpoint is bdb['endpoints'][0]['addr'][0]
PlacementBdbs ==
    { [shards_placement |-> p, proxy_policy |-> y, endpoint |-> a] :
        p \in {"dense", "sparse"}, y \in {"single", "all-master-shards"},
        a \in {"10.0.0.1", "10.0.0.9"} }

\* The 'shards' topic: the shards of the first database; node_uid is a string
ShardsTopics ==
    { <<>>,
      << [uid |-> 1, bdb_uid |-> 1, role |-> "master", node_uid |-> "1"] >>,
      << [uid |-> 1, bdb_uid |-> 1, role |-> "master", node_uid |-> "2"] >>,
      << [uid |-> 1, bdb_uid |-> 1, role |-> "master", node_uid |-> "1"],
         [uid |-> 2, bdb_uid |-> 1, role |-> "slave", node_uid |-> "2"] >> }

\* int(shard['node_uid'])
IntOf(text) == IF text = "1" THEN 1 ELSE 2

\* not dense_bdbs: dense_bdbs is a filter object, which is truthy whatever it
\* yields
NotDenseBdbs(dense_bdbs) == FALSE

\* The body of the loop over the dense databases: what it stores in info for
\* the database at position k of the 'bdbs' topic, if anything
DenseInfoOf(nodes, bdb, k, shards) ==
    LET endpoint_nodes == SelectSeq(nodes, LAMBDA node : node.addr = bdb.endpoint /\ node.uid # 0)
        master_shards  == SelectSeq(shards, LAMBDA shard : shard.bdb_uid = k /\ shard.role = "master")
        shards_not_on_endpoint ==
            SelectSeq(master_shards,
                      LAMBDA shard : IntOf(shard.node_uid) # endpoint_nodes[1].uid)
        result == [i \in 1..Len(shards_not_on_endpoint) |->
                      <<"shard:", shards_not_on_endpoint[i].uid>>]
    IN  IF bdb.proxy_policy # "single"
        THEN << [name |-> k, value |-> <<"proxy policy set to", bdb.proxy_policy>>] >>
        ELSE IF Len(endpoint_nodes) < 1
        THEN << [name |-> k, value |-> <<"no endpoint node found">>] >>
        ELSE IF Len(result) > 0
        THEN << [name |-> k, value |-> result] >>
        ELSE <<>>

RECURSIVE DenseInfoFrom(_, _, _, _)
DenseInfoFrom(nodes, bdbs, shards, k) ==
    IF k > Len(bdbs) THEN <<>>
    ELSE (IF bdbs[k].shards_placement = "dense"
          THEN DenseInfoOf(nodes, bdbs[k], k, shards)
          ELSE <<>>) \o DenseInfoFrom(nodes, bdbs, shards, k + 1)

\* check_databases_config_003
DenseCheck(nodes, bdbs, shards) ==
    LET dense_bdbs == SelectSeq(bdbs, LAMBDA x : x.shards_placement = "dense")
        info       == DenseInfoFrom(nodes, bdbs, shards, 1)
    IN  IF NotDenseBdbs(dense_bdbs)
        THEN [raised |-> "none", result |-> "''", info |-> <<>>]
        ELSE [raised |-> "none",
              result |-> IF ~PyAny([i \in 1..Len(info) |-> Len(info[i].value) > 0])
                         THEN "True" ELSE "False",
              info   |-> info]

\* What a check may read
CheckInputs ==
    { [kind |-> "sync", bdbs |-> b] : b \in SeqsUpTo(SyncBdbs, MaxBdbs) }
      \cup { [kind |-> "usage", bdbs |-> b] : b \in SeqsUpTo(UsageBdbs, MaxBdbs) }
      \cup { [kind |-> "df", rsps |-> r] : r \in [Targets -> DfResults] }
      \cup { [kind |-> "swap", rsps |-> r] : r \in [Targets -> SwapResults] }
      \cup { [kind |-> "placement", nodes |-> <<Node1, Node2>>, bdbs |-> b, shards |-> h] :
                b \in SeqsUpTo(PlacementBdbs, MaxBdbs), h \in ShardsTopics }

ChecksInit ==
    /\ chkIn \in CheckInputs
    /\ chkOut = [raised |-> "notrun"]
    /\ chkPc = "idle"

ChecksIdle ==
    /\ chkIn = [kind |-> "off"]
    /\ chkOut = [raised |-> "notrun"]
    /\ chkPc = "off"

\* check_databases_status_001
CheckDatabasesStatus001 ==
    /\ chkPc = "idle"
    /\ chkIn.kind = "sync"
    /\ chkOut' = SyncCheck(chkIn.bdbs, "replica_sync", "replica_sources")
    /\ chkPc' = "status_001"
    /\ UNCHANGED <<chkIn, notChecks>>

\* check_databases_status_002
CheckDatabasesStatus002 ==
    /\ chkPc = "idle"
    /\ chkIn.kind = "sync"
    /\ chkOut' = SyncCheck(chkIn.bdbs, "crdt_sync", "crdt_sources")
    /\ chkPc' = "status_002"
    /\ UNCHANGED <<chkIn, notChecks>>

\* check_databases_usage_001
CheckDatabasesUsage001 ==
    /\ chkPc = "idle"
    /\ chkIn.kind = "usage"
    /\ chkOut' = UsageCheck(chkIn.bdbs, "total_req")
    /\ chkPc' = "usage_001"
    /\ UNCHANGED <<chkIn, notChecks>>

\* check_databases_usage_002
CheckDatabasesUsage002 ==
    /\ chkPc = "idle"
    /\ chkIn.kind = "usage"
    /\ chkOut' = UsageCheck(chkIn.bdbs, "used_memory")
    /\ chkPc' = "usage_002"
    /\ UNCHANGED <<chkIn, notChecks>>

\* check_log_file_path
CheckLogFilePath ==
    /\ chkPc = "idle"
    /\ chkIn.kind = "df"
    /\ chkOut' = PathCheck(chkIn.rsps)
    /\ chkPc' = "log_file_path"
    /\ UNCHANGED <<chkIn, notChecks>>

\* check_ephemeral_storage_path
CheckEphemeralStoragePath ==
    /\ chkPc = "idle"
    /\ chkIn.kind = "df"
    /\ chkOut' = PathCheck(chkIn.rsps)
    /\ chkPc' = "ephemeral_storage_path"
    /\ UNCHANGED <<chkIn, notChecks>>

\* check_persistent_storage_path
CheckPersistentStoragePath ==
    /\ chkPc = "idle"
    /\ chkIn.kind = "df"
    /\ chkOut' = PathCheck(chkIn.rsps)
    /\ chkPc' = "persistent_storage_path"
    /\ UNCHANGED <<chkIn, notChecks>>

\* check_swappiness
CheckSwappiness ==
    /\ chkPc = "idle"
    /\ chkIn.kind = "swap"
    /\ chkOut' = SwapCheck(chkIn.rsps)
    /\ chkPc' = "swappiness"
    /\ UNCHANGED <<chkIn, notChecks>>

\* check_databases_config_003
CheckDatabasesConfig003 ==
    /\ chkPc = "idle"
    /\ chkIn.kind = "placement"
    /\ chkOut' = DenseCheck(chkIn.nodes, chkIn.bdbs, chkIn.shards)
    /\ chkPc' = "config_003"
    /\ UNCHANGED <<chkIn, notChecks>>

ChecksNext ==
    \/ CheckDatabasesConfig003
    \/ CheckLogFilePath
    \/ CheckEphemeralStoragePath
    \/ CheckPersistentStoragePath
    \/ CheckSwappiness
    \/ CheckDatabasesStatus001
    \/ CheckDatabasesStatus002
    \/ CheckDatabasesUsage001
    \/ CheckDatabasesUsage002

(***************************************************************************)
(* Specifications.                                                         *)
(***************************************************************************)
InitStats == StatsInit /\ RenderIdle /\ ApiIdle /\ RunIdle /\ RexIdle /\ ChecksIdle

SpecStats == InitStats /\ [][StatsNext]_vars

InitRender == RenderInit /\ StatsIdle /\ ApiIdle /\ RunIdle /\ RexIdle /\ ChecksIdle

SpecRender == InitRender /\ [][RenderNext]_vars

InitApi == ApiInit /\ StatsIdle /\ RenderIdle /\ RunIdle /\ RexIdle /\ ChecksIdle

SpecApi == InitApi /\ [][ApiNext]_vars

InitRun == RunInit /\ StatsIdle /\ RenderIdle /\ ApiIdle /\ RexIdle /\ ChecksIdle

SpecRun == InitRun /\ [][RunNext]_vars

InitRex == RexInit /\ StatsIdle /\ RenderIdle /\ ApiIdle /\ RunIdle /\ ChecksIdle

SpecRex == InitRex /\ [][RexNext]_vars

InitChecks == ChecksInit /\ StatsIdle /\ RenderIdle /\ ApiIdle /\ RunIdle /\ RexIdle

SpecChecks == InitChecks /\ [][ChecksNext]_vars

(***************************************************************************)
(* Properties of the statistical aggregation.                              *)
(***************************************************************************)
\* The positions of the intervals whose value for the aggregated field is kept
KeptAt(f) == { k \in 1..Len(ints) : f \in DOMAIN ints[k] /\ ints[k][f] # 0 }

RECURSIVE SumOver(_, _)
SumOver(K, f) ==
    IF K = {} THEN 0
    ELSE LET k == CHOOSE x \in K : TRUE IN f[k] + SumOver(K \ {k}, f)

\* C6: whenever no interval passes the sample filter (no interval carries the
\* field, the interval list is empty, or every carried value is dropped), the
\* aggregation raises ValueError and yields no numeric value.
C6_EmptyFails ==
    aggPc \in Fields =>
        (KeptAt(aggPc) = {} => aggOut = [raised |-> "ValueError"])

C6_Witness ==
    /\ aggPc \in Fields
    /\ Len(ints) > 0
    /\ \A k \in 1..Len(ints) : aggPc \notin DOMAIN ints[k]
    /\ aggOut.raised = "ValueError"

\* C7: for a non-empty filtered sample sequence x1..xn the aggregation yields
\* min = the smallest sample, max = the largest sample, avg = (sum of xi)/n and
\* deviation^2 = (sum of (xi - avg)^2)/n, i.e. n^3 * deviation^2 = sum of
\* (n*xi - sum)^2; for the samples 10, 20, 30: min 10, avg 20, max 30 and a
\* squared-deviation sum of 200 over n = 3.
C7_PopulationStats ==
    aggPc \in Fields =>
        LET K == KeptAt(aggPc)
            n == Cardinality(K)
            X(k) == ints[k][aggPc]
            S == SumOver(K, [k \in K |-> X(k)])
            Q == SumOver(K, [k \in K |-> (n * X(k) - S) * (n * X(k) - S)])
        IN  n > 0 =>
              /\ aggOut.raised = "none"
              /\ \E k \in K : aggOut.minimum = X(k)
              /\ \A k \in K : aggOut.minimum <= X(k)
              /\ \E k \in K : aggOut.maximum = X(k)
              /\ \A k \in K : aggOut.maximum >= X(k)
              /\ aggOut.average.den > 0
              /\ aggOut.average.num * n = S * aggOut.average.den
              /\ aggOut.std_dev_sq.den > 0
              /\ aggOut.std_dev_sq.num * n * n * n = Q * aggOut.std_dev_sq.den
              /\ (aggOut.samples = <<10, 20, 30>> =>
                    /\ aggOut.minimum = 10
                    /\ aggOut.average = [num |-> 20, den |-> 1]
                    /\ aggOut.maximum = 30
                    /\ aggOut.q_sum = [num |-> 200, den |-> 1]
                    /\ aggOut.std_dev_sq = [num |-> 200, den |-> 3])

C7_Witness ==
    /\ aggPc = "total_req"
    /\ Len(ints) = 3
    /\ \A k \in 1..3 : "total_req" \in DOMAIN ints[k] /\ ints[k]["total_req"] = 10 * k
    /\ aggOut.raised = "none"
    /\ aggOut.std_dev_sq = [num |-> 200, den |-> 3]

\* C8 (as claimed): the sample filter keeps exactly the interval records in
\* which the field is present, records whose value is zero included.
C8_KeepsPresentRecords ==
    aggPc \in Fields =>
        LET present == SelectSeq(ints, LAMBDA i : aggPc \in DOMAIN i)
        IN  IF Len(present) = 0
            THEN aggOut.raised = "ValueError"
            ELSE /\ aggOut.raised = "none"
                 /\ aggOut.samples = [k \in 1..Len(present) |-> present[k][aggPc]]

(***************************************************************************)
(* Properties of the renderers.                                            *)
(***************************************************************************)
\* The lines of a text that hold 'Remedy: ' followed by at least one word
RemedyLines(text) ==
    { k \in 1..Len(text) : \E j \in 1..(Len(text[k]) - 1) : text[k][j] = "Remedy:" }

\* The words that follow the first 'Remedy: ' of a line
AfterRemedy(line) ==
    LET j == CHOOSE j \in 1..(Len(line) - 1) :
                 /\ line[j] = "Remedy:"
                 /\ \A i \in 1..(j - 1) : line[i] # "Remedy:"
    IN  [i \in 1..(Len(line) - j) |-> line[j + i]]

\* C9 (as claimed): a Failed outcome whose check documentation holds a line
\* 'Remedy: <text>' is rendered with remedy = <text> of the first such line,
\* with and without a description as the third element of the outcome tuple.
C9_FailedCarriesDocRemedy ==
    (rPc \in {"json", "basic"} /\ rResult[1] = "False" /\ RemedyLines(rDoc) # {}) =>
        LET first == CHOOSE k \in RemedyLines(rDoc) : \A j \in RemedyLines(rDoc) : k <= j
            text  == AfterRemedy(rDoc[first])
        IN  /\ rOut.raised = "none"
            /\ Len(rOut.printed) = 1
            /\ "remedy" \in DOMAIN rOut.printed[1]
            /\ IF rPc = "json"
               THEN rOut.printed[1].remedy = text
               ELSE rOut.printed[1].remedy = <<"cyan", "Remedy:", text>>

\* C10: for an outcome that is Skipped, Succeeded, NoResult or Errored the
\* machine-readable renderer prints one object whose keys are exactly desc,
\* status and info (no remedy), whatever the documentation and the description
\* hold; a Skipped outcome with empty info prints status SKIPPED and info {}.
C10_NoRemedyUnlessFailed ==
    (rPc = "json" /\ rResult[1] \in {"''", "True", "None", "Exception"}) =>
        /\ rOut.raised = "none"
        /\ Len(rOut.printed) = 1
        /\ DOMAIN rOut.printed[1] = {"desc", "status", "info"}
        /\ rOut.printed[1].info = rResult[2]
        /\ rOut.printed[1].status =
              (CASE rResult[1] = "''" -> "SKIPPED"
                 [] rResult[1] = "True" -> "SUCCEEDED"
                 [] rResult[1] = "None" -> "NO RESULT"
                 [] rResult[1] = "Exception" -> "ERROR")
        /\ ((rResult[1] = "''" /\ rResult[2] = <<>>) =>
              rOut.printed[1] =
                [desc |-> (IF Len(rResult) = 3 THEN rResult[3][1] ELSE rDoc[1]),
                 status |-> "SKIPPED", info |-> <<>>])

C10_Witness ==
    /\ rPc = "json"
    /\ rResult = <<"''", <<>>>>
    /\ RemedyLines(rDoc) # {}
    /\ rOut.raised = "none"
    /\ Len(rOut.printed) = 1
    /\ rOut.printed[1].status = "SKIPPED"

\* The five statuses: the outcome value that encodes each, the status word of
\* the machine-readable renderer and the label of the human-readable one
StatusTable ==
    { <<"''", "SKIPPED", "[SKIPPED]">>,
      <<"True", "SUCCEEDED", "[SUCCEEDED]">>,
      <<"False", "FAILED", "[FAILED]">>,
      <<"None", "NO RESULT", "[NO RESULT]">>,
      <<"Exception", "ERROR", "[ERROR]">> }

\* C16: for each of the five outcome encodings the machine-readable and the
\* human-readable render_result print one record that shows the same status
\* (Skipped, Succeeded, Failed, NoResult, Errored); for every other outcome
\* value each of them raises NotImplementedError and prints nothing.
C16_RenderersAgreeOnStatus ==
    rPc \in {"json", "basic"} =>
        IF \E row \in StatusTable : row[1] = rResult[1]
        THEN LET row == CHOOSE row \in StatusTable : row[1] = rResult[1]
             IN  /\ rOut.raised = "none"
                 /\ Len(rOut.printed) = 1
                 /\ IF rPc = "json" THEN rOut.printed[1].status = row[2]
                    ELSE rOut.printed[1].status[2] = row[3]
        ELSE rOut = [raised |-> "NotImplementedError", printed |-> <<>>]

C16_Witness ==
    /\ rPc = "basic"
    /\ rResult[1] = "1"
    /\ rOut.raised = "NotImplementedError"

(***************************************************************************)
(* Properties of the ApiFetcher.                                           *)
(***************************************************************************)
\* The positions of the http_get calls made for a topic
CallsFor(t) == { k \in 1..Len(httpLog) : httpLog[k].topic = t }

\* C1 (as claimed): however often a topic is requested, at most one http_get
\* call is ever made for it.
C1_OneCallPerTopic == \A t \in Topics : Cardinality(CallsFor(t)) <= 1

\* C1 (amended): for every topic exactly one http_get call returned if the
\* topic is cached and none otherwise, and no http_get call for the topic
\* follows the one that returned: later requests are served from the cache.
\* Calls that raised leave the topic uncached and may be followed by a new call.
C1_OneReturnedCallPerTopic ==
    \A t \in Topics :
        /\ Cardinality({ k \in CallsFor(t) : httpLog[k].ok }) =
              (IF t \in DOMAIN cache THEN 1 ELSE 0)
        /\ \A k \in CallsFor(t) : httpLog[k].ok => \A j \in CallsFor(t) : j <= k

C1_Witness ==
    /\ Len(httpLog) = 3
    /\ httpLog[1].topic = "nodes" /\ ~httpLog[1].ok
    /\ httpLog[2].topic = "nodes" /\ httpLog[2].ok
    /\ httpLog[3].topic = "cluster"
    /\ apiRet.op = "get_values" /\ apiRet.arg = <<"nodes", "uid">>
    /\ apiRet.raised = "none"

\* C2 (as claimed): over any sequence of get_uid calls the address-to-uid index
\* is built at most once.
C2_IndexBuiltAtMostOnce == uidBuilds <= 1

(***************************************************************************)
(* Properties of the check runner.                                         *)
(***************************************************************************)
\* The status a printed record shows for an errored check
ShowsError(printed) ==
    IF renderer = "json" THEN printed.status = "ERROR"
    ELSE printed.status = <<"magenta", "[ERROR]">>

\* C3: a check that raises leaves exactly one printed record, with status
\* Errored, and the counters as before except errors, which is one more; the
\* run goes on: while registry entries are left the next one can run, and the
\* final counters are printed only after every entry has run.
C3_RaiseIsContained ==
    /\ \A i \in 1..Len(runLog) :
          runLog[i].raised =>
            /\ runLog[i].printed = 1
            /\ ShowsError(runOut[runLog[i].first])
            /\ runLog[i].after = [runLog[i].before EXCEPT !.errors = @ + 1]
    /\ Len(runLog) = runPos - 1
    /\ (runPc = "running" /\ runPos <= Len(registry)) =>
          (ENABLED CheckReturned /\ ENABLED CheckRaised)
    /\ runPc = "done" => Len(runLog) = Len(registry)

C3_Witness ==
    /\ runPc = "done"
    /\ Len(registry) = 3
    /\ runLog[1].raised
    /\ ~runLog[2].raised
    /\ runLog[3].raised
    /\ runStats.errors = 2

Counters == {"succeeded", "no_result", "failed", "errors", "skipped"}

\* The counter that matches the status a printed record shows
CounterShown(printed) ==
    LET word == IF renderer = "json" THEN printed.status ELSE printed.status[2]
    IN  CASE word \in {"SKIPPED", "[SKIPPED]"}       -> "skipped"
          [] word \in {"SUCCEEDED", "[SUCCEEDED]"}   -> "succeeded"
          [] word \in {"FAILED", "[FAILED]"}         -> "failed"
          [] word \in {"NO RESULT", "[NO RESULT]"}   -> "no_result"
          [] word \in {"ERROR", "[ERROR]"}           -> "errors"

\* C12: the five counters are never negative and never decrease; over the
\* records of one check every counter grows by the number of forwarded records
\* whose status is its own, so each forwarded record adds 1 to exactly one
\* counter; the total that render_stats prints is the number of records that
\* were forwarded to the renderer.
C12_CountersCountRecords ==
    /\ [](/\ \A c \in Counters : runStats[c] >= 0
          /\ \A i \in 1..Len(runLog) : \A c \in Counters :
                runLog[i].after[c] - runLog[i].before[c] =
                    Cardinality({ k \in runLog[i].first..(runLog[i].first + runLog[i].printed - 1) :
                                    CounterShown(runOut[k]) = c })
          /\ Len(runLog) > 0 => runLog[Len(runLog)].after = runStats
          /\ runPc = "running" =>
                PySum(<<runStats.succeeded, runStats.no_result, runStats.failed,
                        runStats.errors, runStats.skipped>>) = Len(runOut)
          /\ runPc = "done" => runOut[Len(runOut)].total = Len(runOut) - 1)
    /\ [][\A c \in Counters : runStats'[c] >= runStats[c]]_vars

C12_Witness ==
    /\ runPc = "done"
    /\ renderer = "json"
    /\ runStats.skipped = 1
    /\ runStats.errors = 1
    /\ runStats.succeeded = 1
    /\ runStats.failed = 1
    /\ runOut[Len(runOut)].total = 4

(***************************************************************************)
(* Properties of the remote executor.                                     *)
(***************************************************************************)
\* C4: exec_broad returns exactly one handle per configured target: as many
\* handles as targets, tagged with pairwise distinct targets that together are
\* the configured targets, whatever the order in which the commands end.
C4_OneHandlePerTarget ==
    batch = "broad" =>
        /\ Len(handles) = NumTargets
        /\ \A i, j \in 1..Len(handles) : handles[i].target = handles[j].target => i = j
        /\ { handles[k].target : k \in 1..Len(handles) } = Targets

C4_Witness ==
    /\ batch = "broad"
    /\ Len(doneOrder) = NumTargets
    /\ handles[doneOrder[1]].target = NumTargets
    /\ handles[doneOrder[NumTargets]].target = 1
    /\ handles[1].target = 2

\* C5: within a batch a handle resolves to a failure exactly when its own
\* command failed; the handle of every command that ended with status 0 holds
\* the output of that command on that target, also when a sibling has failed.
C5_FailSoft ==
    \A k \in 1..Len(handles) :
        /\ handles[k].st = "failed" <=> k \in cmdFailed
        /\ handles[k].st = "ok" =>
              /\ k \notin cmdFailed
              /\ handles[k].result = OutputOf(handles[k].cmd, handles[k].target)

C5_Witness ==
    /\ Len(doneOrder) >= 2
    /\ handles[doneOrder[1]].st = "failed"
    /\ handles[doneOrder[Len(doneOrder)]].st = "ok"
    /\ rexPc = "resolving"
    /\ resolved >= 1

(***************************************************************************)
(* Further properties of the ApiFetcher.                                   *)
(***************************************************************************)
\* C11 (as claimed): a check_connection call never raises; the first call
\* makes at most one http_get call, for 'cluster', and sets the connected flag
\* to True or to False; a call made once the flag is set makes no http_get
\* call and leaves the flag and the cache as they are.
C11_ConnectionProbeContained ==
    [][CheckConnection =>
         /\ apiRet'.raised = "none"
         /\ IF connected = "None"
            THEN /\ connected' \in {"True", "False"}
                 /\ Len(httpLog') <= Len(httpLog) + 1
                 /\ \A k \in (Len(httpLog) + 1)..Len(httpLog') :
                        httpLog'[k].topic = "cluster"
            ELSE UNCHANGED <<connected, httpLog, cache>>]_vars

\* The address ends in ':' and a port number
HasPort(_addr) ==
    /\ Len(_addr) >= 3
    /\ _addr[Len(_addr) - 1] = ":"
    /\ _addr[Len(_addr)] \in {"8443", "9443"}

\* The part of a requested url between 'https://' and '/v1/{topic}'
HostPart(url) == SubSeq(url, 2, Len(url) - 2)

\* C13 (as claimed): every http_get call requests https://{addr}/v1/{topic}
\* when the configured address carries an explicit port and
\* https://{addr}:9443/v1/{topic} when it carries none.
C13_DefaultPortIffNoPort ==
    \A k \in 1..Len(httpLog) :
        LET url == httpLog[k].url
        IN  /\ url[1] = "https://"
            /\ SubSeq(url, Len(url) - 1, Len(url)) = <<"/v1/", httpLog[k].topic>>
            /\ HostPart(url) = (IF HasPort(addr) THEN addr ELSE addr \o <<":9443">>)

\* C15: a topic that has a cache entry keeps that entry, with the same
\* response, through every later operation; once get_uid has built the uid
\* index, every later get_uid call, returning or raising KeyError, leaves the
\* index with the same content.
C15_CacheAndIndexAppendOnly ==
    [][/\ \A t \in DOMAIN cache : t \in DOMAIN cache' /\ cache'[t] = cache[t]
       /\ uidBuilds >= 1 => uids' = uids]_vars

C15_Witness ==
    /\ uidBuilds = 2
    /\ DOMAIN cache = Topics
    /\ apiRet.op = "get_uid"
    /\ apiRet.raised = "KeyError"

\* The operations that call _fetch with their first argument
FetchOps ==
    {"get", "get_with_value", "get_value", "get_values", "get_number_of_values",
     "get_sum_of_values"}

\* The operation that ended as ret, started with the flag _connected and the
\* index _uids, called _fetch(t)
Requests(ret, _connected, _uids, t) ==
    \/ ret.op \in FetchOps /\ ret.arg[1] = t
    \/ ret.op = "get_uid" /\ t = "nodes" /\ DOMAIN _uids = {}
    \/ ret.op = "check_connection" /\ t = "cluster" /\ _connected = "None"

\* The last http_get call of the step's log
LastCall(log) == log[Len(log)]

\* C21: an operation that needs a topic that is not cached makes exactly one
\* http_get call, for that topic, also when an earlier call for the topic has
\* failed; when the call fails the cache is left exactly as it was (no entry
\* for the topic, every other entry as before) and the operation raises one of
\* the exceptions http_get raises, unmodified. check_connection, which calls
\* _fetch through get_value inside a try block, receives the exception and
\* does not set the connected flag to True.
C21_FailedFetchPropagates ==
    [][\A t \in Topics :
         (t \notin DOMAIN cache /\ Requests(apiRet', connected, uids, t)) =>
            /\ Len(httpLog') = Len(httpLog) + 1
            /\ LastCall(httpLog').topic = t
            /\ ~LastCall(httpLog').ok =>
                  /\ cache' = cache
                  /\ IF apiRet'.op = "check_connection"
                     THEN connected' # "True"
                     ELSE /\ apiRet'.raised # "none"
                          /\ apiRet'.exc \in HttpErrors
                          /\ apiRet'.raised = apiRet'.exc.cls]_vars

\* With 'cluster' cached, two requests for 'nodes' in a row failed: each made
\* its own http_get call, the second call raised to the caller of get_values,
\* and the cache still holds 'cluster' only
C21_Witness ==
    /\ Len(httpLog) = 3
    /\ httpLog[1].topic = "cluster" /\ httpLog[1].ok
    /\ httpLog[2].topic = "nodes" /\ ~httpLog[2].ok
    /\ httpLog[3].topic = "nodes" /\ ~httpLog[3].ok
    /\ DOMAIN cache = {"cluster"}
    /\ apiRet.op = "get_values"
    /\ apiRet.raised = "HTTPError"

(***************************************************************************)
(* Further properties of the remote executor.                              *)
(***************************************************************************)
\* The handles whose command has been dispatched and has not ended
InFlight == { k \in 1..Len(handles) : handles[k].st \in {"queued", "running"} }

SourcesRead(bdb) ==
    IF chkPc = "status_001" THEN bdb.replica_sources ELSE bdb.crdt_sources

\* C17 (as claimed): a status check returns the skip marker when no database
\* has sources, Failed when a database that has sources reports a source
\* status other than 'in-sync', and Succeeded when every source of every such
\* database is 'in-sync'.
C17_OutOfSyncFails ==
    chkPc \in {"status_001", "status_002"} =>
        LET withSources == { k \in 1..Len(chkIn.bdbs) : Len(SourcesRead(chkIn.bdbs[k])) > 0 }
            outOfSync   == { k \in withSources :
                               \E j \in 1..Len(SourcesRead(chkIn.bdbs[k])) :
                                   SourcesRead(chkIn.bdbs[k])[j] # "in-sync" }
        IN  chkOut.result = (IF withSources = {} THEN "''"
                             ELSE IF outOfSync # {} THEN "False" ELSE "True")

\* The field a usage check aggregates
UsageField == IF chkPc = "usage_001" THEN "total_req" ELSE "used_memory"

\* The shards of a database of which a sample exceeds the limit of the database
ShardsOverLimit(bdb) ==
    { k \in 1..Len(bdb.shard_list) :
        \E j \in 1..Len(bdb.shard_list[k]) :
            bdb.shard_list[k][j][UsageField] > UsageLimit(bdb, UsageField) }

\* C18 (as claimed): when every database has shards and every shard has
\* samples, a usage check returns one outcome per database, Failed when the
\* maximum of at least one shard of the database exceeds the limit, at
\* whatever position of the shard_list, and Succeeded when none does.
C18_AnyShardOverLimitFails ==
    (/\ chkPc \in {"usage_001", "usage_002"}
     /\ \A k \in 1..Len(chkIn.bdbs) :
           /\ Len(chkIn.bdbs[k].shard_list) > 0
           /\ \A j \in 1..Len(chkIn.bdbs[k].shard_list) :
                 chkIn.bdbs[k].shard_list[j] # IdleShard) =>
        /\ chkOut.raised = "none"
        /\ Len(chkOut.records) = Len(chkIn.bdbs)
        /\ \A k \in 1..Len(chkIn.bdbs) :
              chkOut.records[k][1] =
                 (IF ShardsOverLimit(chkIn.bdbs[k]) # {} THEN "False" ELSE "True")

\* The targets on which the checked condition holds
TargetsInOrder ==
    { t \in Targets :
        IF chkPc = "swappiness" THEN chkIn.rsps[t].text = "inactive"
        ELSE chkIn.rsps[t].lines[2][1] # "/dev/root" }

\* C19 (as claimed): a per-node check that returns an outcome returns
\* Succeeded when the checked condition holds on every target of the
\* broadcast and Failed when one target violates it.
C19_EveryTargetMustPass ==
    (/\ chkPc \in {"log_file_path", "ephemeral_storage_path",
                   "persistent_storage_path", "swappiness"}
     /\ chkOut.raised = "none") =>
        chkOut.result = (IF TargetsInOrder = Targets THEN "True" ELSE "False")

\* C20 (as claimed): check_databases_config_003 returns the skip marker with
\* empty info when no database has shards_placement 'dense', and a boolean
\* outcome when at least one has.
C20_NoDenseDatabaseSkips ==
    chkPc = "config_003" =>
        IF \A k \in 1..Len(chkIn.bdbs) : chkIn.bdbs[k].shards_placement # "dense"
        THEN chkOut.result = "''" /\ chkOut.info = <<>>
        ELSE chkOut.result \in {"True", "False"}

====
